---------------------------- MODULE Spec2Model ----------------------------
(***************************************************************************)
(* A model of bardcore::math (BardCore/include/BardCore/math/math.h).      *)
(*                                                                         *)
(* The library is a set of pure functions.  Each public function is an     *)
(* operator, computed as the header computes it, and one action per        *)
(* function calls it on inputs drawn from a small set and records the      *)
(* call and its outcome; a behaviour is one call, from an idle caller.     *)
(* The compile-time Newton-Raphson recursion of sqrt is unfolded into      *)
(* steps, one recursive call per step, because it need not return.         *)
(*                                                                         *)
(* Numbers.  A double is a record [k, u, e]:                               *)
(*   k = "fin"  : the finite value  u * (epsilon / UnitsPerEpsilon)        *)
(*                                  + e * DBL_EPSILON                      *)
(*   k = "nan", "pinf", "ninf" : NaN, +infinity, -infinity (u = e = 0).    *)
(* u counts grid units; the grid is fixed by the library's epsilon         *)
(* (0.00001 = 1/EpsilonInverse), so 1.0 is EpsilonInverse * UnitsPerEpsilon *)
(* units.  e counts multiples of DBL_EPSILON (2^-52), which is far below   *)
(* one grid unit: values are ordered by u first and by e second.  Sums,    *)
(* differences and products by an int are exact; products and quotients of *)
(* two doubles are rounded to the nearest grid value, a tie to the even    *)
(* one.  Magnitudes stay far below the double's and the int's range, so no *)
(* finite operation overflows in the model; signed zeros are not           *)
(* distinguished.                                                          *)
(***************************************************************************)
EXTENDS Integers, Sequences, FiniteSets, TLC

VARIABLES
    op,                     \* the function of the last call ("none" at start)
    args,                   \* the arguments of the last call
    constant_evaluated,     \* std::_Is_constant_evaluated() during the call
    ret,                    \* the outcome of the last call
    nr                      \* the activation of helper_sqrt_newton_raphson

vars == <<op, args, constant_evaluated, ret, nr>>

----------------------------------------------------------------------------
(* Bounds of the model *)

\* grid units per epsilon (the resolution of the finite doubles)
UnitsPerEpsilon == 2

\* width of unsigned int in the model (32 on the platform)
UnsignedBits == 11

\* the largest plain operand offered to euclidean_gcd
MaxOperand == 12

\* the largest magnitude of an exponent offered to pow
MaxExponent == 3

----------------------------------------------------------------------------
(* Outcomes of a call *)

Return(v) == [kind |-> "return", val |-> v]

Throw(exception) == [kind |-> exception, val |-> 0]

NoCall == [kind |-> "none", val |-> 0]

----------------------------------------------------------------------------
(* double: representation and IEEE arithmetic on the grid *)

\* 1 / epsilon: epsilon is 0.00001
EpsilonInverse == 100000

\* grid units of the value 1.0
Scale == EpsilonInverse * UnitsPerEpsilon

Fin(units) == [k |-> "fin", u |-> units, e |-> 0]

NaN == [k |-> "nan", u |-> 0, e |-> 0]

PosInf == [k |-> "pinf", u |-> 0, e |-> 0]

NegInf == [k |-> "ninf", u |-> 0, e |-> 0]

Zero == Fin(0)

One == Fin(Scale)

\* the literal 0.5
Half == Fin(Scale \div 2)

\* DBL_EPSILON, one step of the second component
DBL_EPSILON == [k |-> "fin", u |-> 0, e |-> 1]

IsFinite(x) == x.k = "fin"

IsNan(x) == x.k = "nan"

\* -1, 0 or 1: the sign of an integer
SignOf(i) == IF i < 0 THEN -1 ELSE IF i > 0 THEN 1 ELSE 0

AbsOf(i) == IF i < 0 THEN -i ELSE i

\* the sign of a double other than NaN, as an integer
DSign(x) ==
    CASE x.k = "pinf" -> 1
      [] x.k = "ninf" -> -1
      [] OTHER -> IF x.u # 0 THEN SignOf(x.u) ELSE SignOf(x.e)

\* x < y; false when either is NaN
DLess(x, y) ==
    CASE IsNan(x) \/ IsNan(y) -> FALSE
      [] x.k = "pinf" -> FALSE
      [] y.k = "ninf" -> FALSE
      [] x.k = "ninf" -> TRUE
      [] y.k = "pinf" -> TRUE
      [] OTHER -> x.u < y.u \/ (x.u = y.u /\ x.e < y.e)

\* x == y; false when either is NaN
DEq(x, y) == ~IsNan(x) /\ ~IsNan(y) /\ x = y

\* x <= y
DLeq(x, y) == DLess(x, y) \/ DEq(x, y)

\* -x
DNeg(x) ==
    CASE x.k = "nan" -> NaN
      [] x.k = "pinf" -> NegInf
      [] x.k = "ninf" -> PosInf
      [] OTHER -> [k |-> "fin", u |-> -x.u, e |-> -x.e]

\* the infinity of sign s (s is 1 or -1)
InfOf(s) == IF s < 0 THEN NegInf ELSE PosInf

\* x + y
DAdd(x, y) ==
    CASE IsNan(x) \/ IsNan(y) -> NaN
      [] IsFinite(x) /\ IsFinite(y) ->
            [k |-> "fin", u |-> x.u + y.u, e |-> x.e + y.e]
      [] IsFinite(x) -> y
      [] IsFinite(y) -> x
      [] OTHER -> IF x = y THEN x ELSE NaN

\* x - y
DSub(x, y) == DAdd(x, DNeg(y))

\* the element of a singleton set
The(S) == CHOOSE x \in S : TRUE

RECURSIVE MulDivQR(_, _, _)
\* <<quotient, remainder>> of a * b by c for a, b >= 0 and c > 0, computed
\* by doubling so that no intermediate value leaves the 32-bit range
MulDivQR(a, b, c) ==
    IF b = 0 THEN <<0, 0>>
    ELSE The({ The({ <<2 * h[1] + (plus \div c) + (r \div c), r % c>> :
                        r \in {2 * h[2] + (plus % c)} }) :
                  h \in {MulDivQR(a, b \div 2, c)},
                  plus \in {IF b % 2 = 1 THEN a ELSE 0} })

\* a * b / c for a, b >= 0 and c > 0, rounded to the nearest integer, a tie
\* to the even one (the rounding of IEEE arithmetic)
MulDivNearest(a, b, c) ==
    The({ IF 2 * qr[2] > c \/ (2 * qr[2] = c /\ qr[1] % 2 = 1)
          THEN qr[1] + 1
          ELSE qr[1] : qr \in {MulDivQR(a, b, c)} })

\* a * b / c rounded to nearest, for c # 0
MulDiv(a, b, c) ==
    SignOf(a) * SignOf(b) * SignOf(c) * MulDivNearest(AbsOf(a), AbsOf(b), AbsOf(c))

\* x * y: the product of two finite values is rounded to the grid
DMul(x, y) ==
    CASE IsNan(x) \/ IsNan(y) -> NaN
      [] IsFinite(x) /\ IsFinite(y) ->
            [k |-> "fin",
             u |-> MulDiv(x.u, y.u, Scale),
             e |-> MulDiv(x.e, y.u, Scale) + MulDiv(x.u, y.e, Scale)]
      [] DSign(x) = 0 \/ DSign(y) = 0 -> NaN
      [] OTHER -> InfOf(DSign(x) * DSign(y))

\* x / y: the quotient of two finite values is rounded to the grid (the
\* DBL_EPSILON steps of the operands are below its resolution); x / 0 is
\* an infinity, or NaN for 0 / 0
DDiv(x, y) ==
    CASE IsNan(x) \/ IsNan(y) -> NaN
      [] IsFinite(x) /\ IsFinite(y) ->
            IF y.u = 0
            THEN IF DSign(x) = 0 THEN NaN ELSE InfOf(DSign(x))
            ELSE Fin(MulDiv(x.u, Scale, y.u))
      [] IsFinite(x) -> Zero
      [] IsFinite(y) -> InfOf(DSign(x) * (IF DSign(y) < 0 THEN -1 ELSE 1))
      [] OTHER -> NaN

\* static_cast<double>(int)
FromInt(i) == Fin(i * Scale)

\* static_cast<int>(double) of a finite value: truncation toward zero
ToInt(x) ==
    LET whole == AbsOf(x.u) \div Scale
        exact == AbsOf(x.u) % Scale = 0
        inward == x.u # 0 /\ SignOf(x.e) = -SignOf(x.u)
    IN  SignOf(x.u) * (IF exact /\ inward THEN whole - 1 ELSE whole)

\* std::fmod of finite values, y # 0: the exact remainder, with the sign of x
std_fmod(x, y) == Fin(SignOf(x.u) * (AbsOf(x.u) % AbsOf(y.u)))

----------------------------------------------------------------------------
(* Constants of the library *)

\* epsilon = 0.00001
epsilon == Fin(UnitsPerEpsilon)

\* pi = 3.14159265358979323846, to the grid (3.1415926...)
pi == Fin(314159 * UnitsPerEpsilon + (27 * UnitsPerEpsilon) \div 100)

inf == PosInf

----------------------------------------------------------------------------
(* Comparison layer *)

\* a less_than whose band is closed: number2 - number1 >= epsilon
less_than_closed(number1, number2) == DLeq(epsilon, DSub(number2, number1))

less_than(number1, number2) == DLess(epsilon, DSub(number2, number1))

greater_than(number1, number2) == DLess(epsilon, DSub(number1, number2))

abs(value) == IF less_than(value, Zero) THEN DNeg(value) ELSE value

equals(number1, number2) == DLeq(abs(DSub(number1, number2)), epsilon)

sign(value) ==
    IF equals(value, Zero) THEN 0
    ELSE IF less_than(value, Zero) THEN -1 ELSE 1

----------------------------------------------------------------------------
(* mod *)

\* ce is std::_Is_constant_evaluated() in the call
mod(value, divisor, ce) ==
    IF equals(divisor, Zero) THEN Throw("zero_exception")
    ELSE IF ~ce
    THEN LET m == std_fmod(value, divisor)
         IN  Return(IF equals(abs(m), abs(divisor)) THEN Zero ELSE m)
    ELSE IF equals(value, Zero) THEN Return(Zero)
    ELSE LET quotient == DDiv(value, divisor)
             multiplier ==
                 ToInt(DAdd(quotient, DMul(epsilon, FromInt(sign(quotient)))))
         IN  Return(DAdd(DSub(value, DMul(FromInt(multiplier), divisor)),
                         DMul(DBL_EPSILON, FromInt(sign(value)))))

----------------------------------------------------------------------------
(* sqrt *)

RECURSIVE SqrtSearch(_, _, _)
\* the largest r in lo .. hi with r * r <= n * Scale
SqrtSearch(n, lo, hi) ==
    IF lo >= hi THEN lo
    ELSE The({ IF qr[1] < n \/ (qr[1] = n /\ qr[2] = 0)
               THEN SqrtSearch(n, mid, hi)
               ELSE SqrtSearch(n, lo, mid - 1) :
                  mid \in {(lo + hi + 1) \div 2},
                  qr \in {MulDivQR((lo + hi + 1) \div 2,
                                   (lo + hi + 1) \div 2, Scale)} })

\* std::sqrt of a value that is not negative: the root, to the grid below
std_sqrt(value) ==
    IF ~IsFinite(value) THEN value
    ELSE Fin(SqrtSearch(value.u, 0, (value.u + Scale) \div 2 + 1))

\* the call helper_sqrt_newton_raphson(value, curr, prev) about to be made
Enter(value, curr, prev) ==
    [kind |-> "running", val |-> [value |-> value, curr |-> curr, prev |-> prev]]

\* the exit test of helper_sqrt_newton_raphson
helper_sqrt_newton_raphson_returns(curr, prev) == DEq(curr, prev)

\* the first argument of its recursive call
helper_sqrt_newton_raphson_next(value, curr) ==
    DMul(Half, DAdd(curr, DDiv(value, curr)))

\* a sqrt that rejects with the tolerant comparison
sqrt_tolerant(value, ce) ==
    IF less_than(value, Zero) THEN Throw("negative_exception")
    ELSE IF ~ce THEN Return(std_sqrt(value))
    ELSE Enter(value, value, Zero)

sqrt(value, ce) ==
    IF DLess(value, Zero) THEN Throw("negative_exception")
    ELSE IF ~ce THEN Return(std_sqrt(value))
    ELSE Enter(value, value, Zero)

----------------------------------------------------------------------------
(* pow *)

RECURSIVE PowNat(_, _)
\* base multiplied n times
PowNat(base, n) == IF n = 0 THEN One ELSE DMul(base, PowNat(base, n - 1))

\* std::pow(base, static_cast<double>(exponent)), as IEEE 754 defines pow
std_pow(base, exponent) ==
    IF exponent = 0 \/ DEq(base, One) THEN One
    ELSE IF IsNan(base) THEN NaN
    ELSE IF ~IsFinite(base)
    THEN IF exponent < 0 THEN Zero
         ELSE IF base = NegInf /\ exponent % 2 = 1 THEN NegInf ELSE PosInf
    ELSE IF exponent > 0 THEN PowNat(base, exponent)
    ELSE DDiv(One, PowNat(base, -exponent))

RECURSIVE pow(_, _, _)
pow(base, exponent, ce) ==
    IF ~ce THEN std_pow(base, exponent)
    ELSE IF IsNan(base) \/ DEq(base, inf) \/ DEq(base, DNeg(inf)) THEN NaN
    ELSE IF exponent = 0 \/ equals(base, One) THEN One
    ELSE IF exponent > 0
    THEN DMul(base, pow(base, exponent - 1, ce))
    ELSE DDiv(One, DMul(base, pow(base, -exponent - 1, ce)))

----------------------------------------------------------------------------
(* sin *)

\* The outcome of sin.  On the ahead-of-time path the argument is reduced and
\* the Maclaurin series is summed from the reduced argument: the outcome
\* "series" carries the argument the summation starts from, not the sum.  On
\* the live path the outcome "std" carries the argument given to std::sin.
sin(value, ce) ==
    IF ~ce THEN [kind |-> "std", val |-> value]
    ELSE IF IsNan(value) \/ DEq(value, inf) \/ DEq(value, DNeg(inf))
    THEN Return(NaN)
    ELSE [kind |-> "series", val |-> mod(value, DMul(FromInt(2), pi), ce).val]

----------------------------------------------------------------------------
(* unsigned int *)

\* conversion of an int argument to the unsigned int parameter
ToUnsigned(i) == i % (2 ^ UnsignedBits)

RECURSIVE euclidean_gcd_first(_, _)
\* a euclidean_gcd that returns the dividend at the stop condition
euclidean_gcd_first(number1, number2) ==
    IF number1 = 0 \/ number2 = 0 THEN Throw("zero_exception")
    ELSE IF number1 < number2 THEN Throw("negative_exception")
    ELSE LET m == number1 % number2
         IN  IF m = 0 THEN Return(number1)
             ELSE euclidean_gcd_first(number2, m)

RECURSIVE euclidean_gcd_order_first(_, _)
\* a euclidean_gcd that tests the order of its operands before their being zero
euclidean_gcd_order_first(number1, number2) ==
    IF number1 < number2 THEN Throw("negative_exception")
    ELSE IF number1 = 0 \/ number2 = 0 THEN Throw("zero_exception")
    ELSE LET m == number1 % number2
         IN  IF m = 0 THEN Return(number2)
             ELSE euclidean_gcd_order_first(number2, m)

RECURSIVE euclidean_gcd(_, _)
euclidean_gcd(number1, number2) ==
    IF number1 = 0 \/ number2 = 0 THEN Throw("zero_exception")
    ELSE IF number1 < number2 THEN Throw("negative_exception")
    ELSE LET m == number1 % number2
         IN  IF m = 0 THEN Return(number2)
             ELSE euclidean_gcd(number2, m)

----------------------------------------------------------------------------
(* The inputs offered to the calls *)

\* int arguments a caller passes to euclidean_gcd: -1, 0 and small positives
IntArgs == -1 .. MaxOperand

\* the pairs offered to euclidean_gcd, with the pair of euclidean_gcd_test
GcdPairs == (IntArgs \X IntArgs) \union {<<1071, 462>>}

\* exponents a caller passes to pow
Exponents == -MaxExponent .. MaxExponent

\* finite doubles, in grid units: 0, values inside, on and just outside the
\* epsilon band around 0 and around 1, and values below, at and above
\* multiples of 1, 2, 3 and 2 * pi
FiniteUnits ==
    LET E == UnitsPerEpsilon
        S == Scale
    IN  {0, 1, -1, E, -E, E + 1, -(E + 1),
         S \div 2, S - E - 1, S - E, S, S + 1, S + E, S + E + 1, -S,
         2 * S, 3 * S - 1, 3 * S, -3 * S, 4 * S,
         6 * S - E, 6 * S, -(6 * S - E), 2 * pi.u, 7 * S}

FiniteDoubles == {Fin(units) : units \in FiniteUnits}

Doubles == FiniteDoubles \union {NaN, PosInf, NegInf}

\* the bases offered to pow: NaN, the infinities, 0, values within and just
\* outside epsilon of 1, and other finite values
PowBases ==
    LET E == UnitsPerEpsilon
        S == Scale
    IN  {NaN, PosInf, NegInf} \union
        {Fin(units) : units \in {0, S - E - 1, S - E, S - 1, S, S + 1, S + E,
                                 S + E + 1, -S, S \div 2, 2 * S, -2 * S, 3 * S}}

\* the largest quotient value / divisor offered to mod
MaxQuotient == 1000

\* the pairs offered to mod: the quotient stays in the range of the grid
ModPairs ==
    {p \in FiniteDoubles \X FiniteDoubles :
        equals(p[2], Zero) \/ AbsOf(p[1].u) \div AbsOf(p[2].u) < MaxQuotient}

----------------------------------------------------------------------------
(* The calls *)

NoArgs == [i |-> 0, j |-> 0, x |-> Zero, y |-> Zero]

\* pc is the place in helper_sqrt_newton_raphson: "test" before curr == prev
\* is evaluated, "call" before the recursive call is made
NoActivation ==
    [active |-> FALSE, pc |-> "test", value |-> Zero, curr |-> Zero,
     prev |-> Zero, divided |-> FALSE]

Init ==
    /\ op = "none"
    /\ args = NoArgs
    /\ constant_evaluated = FALSE
    /\ ret = NoCall
    /\ nr = NoActivation

\* a caller calls euclidean_gcd(i, j) with int arguments
CallEuclideanGcd ==
    /\ op = "none"
    /\ \E p \in GcdPairs, ce \in BOOLEAN :
        /\ op' = "euclidean_gcd"
        /\ args' = [NoArgs EXCEPT !.i = p[1], !.j = p[2]]
        /\ constant_evaluated' = ce
        /\ ret' = euclidean_gcd(ToUnsigned(p[1]), ToUnsigned(p[2]))
        /\ UNCHANGED nr

CallEquals ==
    /\ op = "none"
    /\ \E x \in Doubles, y \in Doubles, ce \in BOOLEAN :
        /\ op' = "equals"
        /\ args' = [NoArgs EXCEPT !.x = x, !.y = y]
        /\ constant_evaluated' = ce
        /\ ret' = Return(equals(x, y))
        /\ UNCHANGED nr

CallGreaterThan ==
    /\ op = "none"
    /\ \E x \in Doubles, y \in Doubles, ce \in BOOLEAN :
        /\ op' = "greater_than"
        /\ args' = [NoArgs EXCEPT !.x = x, !.y = y]
        /\ constant_evaluated' = ce
        /\ ret' = Return(greater_than(x, y))
        /\ UNCHANGED nr

CallLessThan ==
    /\ op = "none"
    /\ \E x \in Doubles, y \in Doubles, ce \in BOOLEAN :
        /\ op' = "less_than"
        /\ args' = [NoArgs EXCEPT !.x = x, !.y = y]
        /\ constant_evaluated' = ce
        /\ ret' = Return(less_than(x, y))
        /\ UNCHANGED nr

CallAbs ==
    /\ op = "none"
    /\ \E x \in Doubles, ce \in BOOLEAN :
        /\ op' = "abs"
        /\ args' = [NoArgs EXCEPT !.x = x]
        /\ constant_evaluated' = ce
        /\ ret' = Return(abs(x))
        /\ UNCHANGED nr

\* mod is called with finite arguments; static_cast<int> of a quotient that
\* is NaN or infinite is undefined
CallMod ==
    /\ op = "none"
    /\ \E p \in ModPairs, ce \in BOOLEAN :
        /\ op' = "mod"
        /\ args' = [NoArgs EXCEPT !.x = p[1], !.y = p[2]]
        /\ constant_evaluated' = ce
        /\ ret' = mod(p[1], p[2], ce)
        /\ UNCHANGED nr

\* sqrt throws, returns std::sqrt, or enters helper_sqrt_newton_raphson
CallSqrt ==
    /\ op = "none"
    /\ \E x \in Doubles, ce \in BOOLEAN :
        /\ op' = "sqrt"
        /\ args' = [NoArgs EXCEPT !.x = x]
        /\ constant_evaluated' = ce
        /\ ret' = sqrt(x, ce)
        /\ nr' = IF ret'.kind = "running"
                 THEN [active |-> TRUE, pc |-> "test",
                       value |-> ret'.val.value, curr |-> ret'.val.curr,
                       prev |-> ret'.val.prev, divided |-> FALSE]
                 ELSE NoActivation

\* helper_sqrt_newton_raphson: curr == prev, the recursion returns curr
NewtonReturn ==
    /\ nr.active /\ nr.pc = "test"
    /\ helper_sqrt_newton_raphson_returns(nr.curr, nr.prev)
    /\ ret' = Return(nr.curr)
    /\ nr' = [nr EXCEPT !.active = FALSE]
    /\ UNCHANGED <<op, args, constant_evaluated>>

\* helper_sqrt_newton_raphson: curr != prev, the other branch is taken
NewtonContinue ==
    /\ nr.active /\ nr.pc = "test"
    /\ ~helper_sqrt_newton_raphson_returns(nr.curr, nr.prev)
    /\ nr' = [nr EXCEPT !.pc = "call"]
    /\ UNCHANGED <<op, args, constant_evaluated, ret>>

\* helper_sqrt_newton_raphson: the function calls itself with
\* (value, 0.5 * (curr + value / curr), curr)
NewtonRecurse ==
    /\ nr.active /\ nr.pc = "call"
    /\ nr' = [nr EXCEPT
                !.pc = "test",
                !.curr = helper_sqrt_newton_raphson_next(nr.value, nr.curr),
                !.prev = nr.curr,
                !.divided = TRUE]
    /\ UNCHANGED <<op, args, constant_evaluated, ret>>

CallPow ==
    /\ op = "none"
    /\ \E base \in PowBases, exponent \in Exponents, ce \in BOOLEAN :
        /\ op' = "pow"
        /\ args' = [NoArgs EXCEPT !.x = base, !.i = exponent]
        /\ constant_evaluated' = ce
        /\ ret' = Return(pow(base, exponent, ce))
        /\ UNCHANGED nr

CallSin ==
    /\ op = "none"
    /\ \E x \in Doubles, ce \in BOOLEAN :
        /\ op' = "sin"
        /\ args' = [NoArgs EXCEPT !.x = x]
        /\ constant_evaluated' = ce
        /\ ret' = sin(x, ce)
        /\ UNCHANGED nr

Next ==
    \/ CallEuclideanGcd
    \/ CallEquals
    \/ CallGreaterThan
    \/ CallLessThan
    \/ CallAbs
    \/ CallMod
    \/ CallSqrt
    \/ NewtonReturn
    \/ NewtonContinue
    \/ NewtonRecurse
    \/ CallPow
    \/ CallSin

Spec == Init /\ [][Next]_vars

\* a call that can take a step takes it: the evaluation does not pause
FairSpec ==
    Spec /\ WF_vars(NewtonReturn) /\ WF_vars(NewtonContinue) /\ WF_vars(NewtonRecurse)


----------------------------------------------------------------------------
(* euclidean_gcd *)

\* the operands euclidean_gcd received in the recorded call
Number1 == ToUnsigned(args.i)

Number2 == ToUnsigned(args.j)

Divides(d, n) == n % d = 0

InvalidGcdCall ==
    \/ args.i < 0 \/ args.j < 0
    \/ args.i = 0 \/ args.j = 0
    \/ args.i < args.j

\* C3: euclidean_gcd throws negative_exception for every invalid call: a
\* negative argument, a zero argument, a first argument below the second
C3_InvalidCallsThrowNegativeException ==
    (op = "euclidean_gcd" /\ InvalidGcdCall) => ret.kind = "negative_exception"

----------------------------------------------------------------------------
(* mod *)

\* the magnitude of a double, without the tolerance of the library's abs
Magnitude(x) == IF DSign(x) < 0 THEN DNeg(x) ELSE x

\* C4: for every finite value and every divisor with abs(divisor) > epsilon,
\* mod(value, divisor) returns a result that is never negative when
\* value > 0 and never positive when value < 0, of magnitude strictly less
\* than abs(divisor), on the ahead-of-time path as on the live path
C4_ModSignAndMagnitude ==
    (op = "mod" /\ DLess(epsilon, Magnitude(args.y))) =>
        /\ ret.kind = "return"
        /\ DLess(Zero, args.x) => DLeq(Zero, ret.val)
        /\ DLess(args.x, Zero) => DLeq(ret.val, Zero)
        /\ DLess(Magnitude(ret.val), Magnitude(args.y))

\* C5: for all a > 0, mod(a, a) returns, and returns 0, on both paths
C5_ModOfSelfIsZero ==
    (op = "mod" /\ args.x = args.y /\ DLess(Zero, args.x)) => ret = Return(Zero)

----------------------------------------------------------------------------
(* Comparison layer *)

\* exactly one of three is true
ExactlyOne(p, q, r) ==
    (p /\ ~q /\ ~r) \/ (~p /\ q /\ ~r) \/ (~p /\ ~q /\ r)

C11_AbsNeverNegative ==
    (op = "abs" /\ IsFinite(args.x)) =>
        /\ ret.kind = "return"
        /\ DLeq(Zero, ret.val)
        /\ ret.val = abs(DNeg(args.x))

----------------------------------------------------------------------------
(* sqrt *)

\* value < 0, read off the representation
IsNegative(x) == x.k = "ninf" \/ (x.k = "fin" /\ (x.u < 0 \/ (x.u = 0 /\ x.e < 0)))

\* C7: sqrt(value) fails with negative_exception for every value < 0, also
\* of magnitude below epsilon, and for no other value; sqrt(0) returns 0 on
\* both paths, and ahead of time the helper is entered with (0, 0, 0) and
\* returns without dividing
C7_SqrtRejectsNegativeAndZeroIsExact ==
    op = "sqrt" =>
        /\ ret.kind = "negative_exception" <=> IsNegative(args.x)
        /\ (args.x = Zero /\ ~constant_evaluated) => ret = Return(Zero)
        /\ (args.x = Zero /\ constant_evaluated) =>
              /\ nr.value = Zero /\ nr.curr = Zero /\ nr.prev = Zero
              /\ ~nr.divided
              /\ ret.kind = "running" =>
                    /\ nr.active /\ nr.pc = "test"
                    /\ helper_sqrt_newton_raphson_returns(nr.curr, nr.prev)
              /\ ret.kind # "running" => ret = Return(Zero)

\* sqrt(0) has returned 0 ahead of time, and nothing was divided
C7_Witness ==
    /\ op = "sqrt"
    /\ constant_evaluated
    /\ args.x = Zero
    /\ ret = Return(Zero)
    /\ ~nr.active /\ ~nr.divided

\* C10: ahead of time, for every input sqrt does not reject (finite values
\* >= 0, +infinity, NaN), the Newton-Raphson recursion reaches curr == prev
\* and returns
C10_NewtonRaphsonReturns ==
    (op = "sqrt" /\ nr.active) ~> (ret.kind = "return" /\ ~nr.active)

----------------------------------------------------------------------------
(* pow *)

\* C8: for every base and exponent, pow returns on the ahead-of-time path
\* what it returns on the live path
C8_PowSameOnBothPaths ==
    op = "pow" => ret = Return(pow(args.x, args.i, ~constant_evaluated))

----------------------------------------------------------------------------
(* sin *)

\* C9: ahead of time, for every finite x the value sin feeds into the
\* Maclaurin summation lies in [0, 2 * pi)
C9_SinArgumentReduced ==
    (op = "sin" /\ constant_evaluated /\ IsFinite(args.x)) =>
        /\ ret.kind = "series"
        /\ DLeq(Zero, ret.val)
        /\ DLess(ret.val, DMul(FromInt(2), pi))

============================================================================
